---------------------------- MODULE Spec2Model ----------------------------
(***************************************************************************)
(* Model of the pi-microhud display programs (pihud-ip.py, pihud-kismet.py)*)
(* driving a CH1115 88x48 OLED over I2C: the bus helpers (_cmd, _data,     *)
(* _set_page_col), the controller sequences (_init_for_48_rows,            *)
(* _clear_all_pages, push_frame_only), the layout routine                  *)
(* (show_lines_align) and the two redraw loops.                            *)
(*                                                                         *)
(* One step of the model is one bus transaction (write_i2c_block_data),    *)
(* one iteration of a loop of the layout routine, or one statement of a    *)
(* main loop.  `bus` records the transactions of the current SMBus session *)
(* ("with SMBus(1) as b:"), as a recording test transport would.           *)
(***************************************************************************)
EXTENDS Integers, Sequences, FiniteSets, TLC

(* ------------------------- hardware configuration --------------------- *)
W == 88
H == 48
PAGES == (H + 7) \div 8
START_LINE == 0
\* the bus ceiling of one data transaction: min(16, len(ch) - i)
CHUNK == 16
\* register (control tag) of a command / of a data transaction
REG_CMD == 0
REG_DATA == 64
\* the number of physical pages _clear_all_pages wipes: range(8)
PHYS_PAGES == 8
\* show_lines_align: font_h = 8; text_width: char_w = 6; glyph 5 px wide
font_h == 8
char_w == 6
glyph_w == 5

(* ------------------------------- bounds ------------------------------- *)
\* longest payload handed to _data by the payload harness (SpecData)
MaxPayload == 35

VARIABLES
    prog,          \* which program runs: "ip" (pihud-ip.py) or "kismet"
    ROTATE,        \* orientation preset of pihud-ip.py (0 or 1)
    pc,            \* control position
    caller,        \* who called the running driver routine / layout routine
    buffer,        \* d.buffer: the framebuffer, W*PAGES bytes
    bus,           \* transactions of the current SMBus session, in order
    lines,         \* show_lines_align: lines
    aligns,        \* show_lines_align: aligns (normalised, one per line)
    line_spacing,  \* show_lines_align: line_spacing
    y_start,       \* show_lines_align: y_start (None or <<row>>)
    y0,            \* show_lines_align: y0
    li,            \* show_lines_align: index i of the for loop
    x,             \* show_lines_align: x of the last line handled
    y,             \* show_lines_align: y of the last line handled
    p,             \* page index of _clear_all_pages / push_frame_only
    k,             \* command index in _init_for_48_rows / _set_page_col
    ch,            \* _data: the payload
    i,             \* _data: the offset i
    flip,          \* pihud-ip.py main: flip
    LINES,         \* pihud-ip.py main: LINES
    exc,           \* the uncaught exception that ended the process, or "none"
    handled        \* TRUE once the except KeyboardInterrupt clause was entered

vars == <<prog, ROTATE, pc, caller, buffer, bus, lines, aligns, line_spacing,
          y_start, y0, li, x, y, p, k, ch, i, flip, LINES, exc, handled>>

layoutVars == <<lines, aligns, line_spacing, y_start, y0, li, x, y>>
driverVars == <<p, k, ch, i>>

(* --------------------------- orientation profile ---------------------- *)
\* pihud-ip.py: ROTATE = 0 -> 0xA0, 0xC0, 0;  ROTATE = 1 -> 0xA1, 0xC8, 39.
\* pihud-kismet.py: 0xA0, 0xC0, 0.
SEG == IF prog = "ip" /\ ROTATE = 1 THEN 161 ELSE 160
COM == IF prog = "ip" /\ ROTATE = 1 THEN 200 ELSE 192
X_OFFSET == IF prog = "ip" /\ ROTATE = 1 THEN 39 ELSE 0

(* ------------------------------ helpers ------------------------------- *)
Min(a, b) == IF a < b THEN a ELSE b
Max(a, b) == IF a > b THEN a ELSE b

\* v & 0x3F, v & 0x0F and v >> 4 on non-negative integers
And3F(v) == v % 64
And0F(v) == v % 16
Shr4(v) == v \div 16

\* ch[a:b] of a Python sequence (0-based, end exclusive, clamped to the length)
Slice(s, a, b) == SubSeq(s, a + 1, Min(b, Len(s)))

\* bytes([0x00]) * n
Zeros(n) == [j \in 1..n |-> 0]

(* --------------------------- low-level I2C ---------------------------- *)
\* _cmd(b, *v): one transaction to register 0x00 carrying the bytes v
cmd(v) == [reg |-> REG_CMD, data |-> v]

\* the transaction _data issues at offset off: n = min(16, len(ch) - i)
data_n(payload, off) == Min(CHUNK, Len(payload) - off)
\* (a slice taken one byte late)
data_tx_late(payload, off) ==
    [reg |-> REG_DATA,
     data |-> Slice(payload, off + 1, off + 1 + data_n(payload, off))]
data_tx(payload, off) ==
    [reg |-> REG_DATA, data |-> Slice(payload, off, off + data_n(payload, off))]

\* _set_page_col(b, page, col): its three commands, in order
set_page_col(page, col) ==
    << cmd(<<176 + And0F(page)>>),          \* 0xB0 | (page & 0x0F)
       cmd(<<And0F(col)>>),                 \* 0x00 | (col & 0x0F)
       cmd(<<16 + And0F(Shr4(col))>>) >>    \* 0x10 | ((col >> 4) & 0x0F)

\* (display ON sent before the remap and scan commands)
init_on_first ==
    << cmd(<<174>>), cmd(<<168, And3F(H - 1)>>), cmd(<<211, And3F(START_LINE)>>),
       cmd(<<64>>), cmd(<<175>>), cmd(<<SEG>>), cmd(<<COM>>) >>
\* _init_for_48_rows(b): its seven commands, in order
init_for_48_rows ==
    << cmd(<<174>>),                        \* 0xAE display OFF
       cmd(<<168, And3F(H - 1)>>),          \* 0xA8 multiplex
       cmd(<<211, And3F(START_LINE)>>),     \* 0xD3 display offset
       cmd(<<64>>),                         \* 0x40 start line
       cmd(<<SEG>>),
       cmd(<<COM>>),
       cmd(<<175>>) >>                      \* 0xAF display ON


(* ------------------------------ framebuffer --------------------------- *)
\* d.fill(0): every byte of the W*PAGES-byte buffer is zero
fill0 == Zeros(W * PAGES)

\* bit b of byte v (bit 0 = topmost row of the page)
Bit(v, b) == (v \div (2 ^ b)) % 2 = 1

\* pixel (px, py) of a buffer: byte page*W + px, bit py mod 8
Pixel(buf, px, py) == Bit(buf[(py \div 8) * W + px + 1], py % 8)

\* d.text(s, tx, ty, 1) touches pixel (px, py): the pixel lies in the 5x8
\* cell of one of the Len(s) glyphs, laid out at a 6-pixel pitch from tx.
\* The glyph bitmaps are font data outside the repository: a glyph is drawn
\* as its whole 5x8 cell.  Pixels outside the panel are clipped.
TextLit(px, py, n, tx, ty) ==
    /\ 0 <= px /\ px < W /\ 0 <= py /\ py < H
    /\ ty <= py /\ py < ty + font_h
    /\ tx <= px /\ px < tx + n * char_w
    /\ (px - tx) % char_w < glyph_w

BitVal(buf, j, b, n, tx, ty) ==
    IF Bit(buf[j], b) \/ TextLit((j - 1) % W, ((j - 1) \div W) * 8 + b, n, tx, ty)
    THEN 2 ^ b ELSE 0

text(buf, s, tx, ty) ==
    [j \in 1..Len(buf) |->
        BitVal(buf, j, 0, Len(s), tx, ty) + BitVal(buf, j, 1, Len(s), tx, ty)
      + BitVal(buf, j, 2, Len(s), tx, ty) + BitVal(buf, j, 3, Len(s), tx, ty)
      + BitVal(buf, j, 4, Len(s), tx, ty) + BitVal(buf, j, 5, Len(s), tx, ty)
      + BitVal(buf, j, 6, Len(s), tx, ty) + BitVal(buf, j, 7, Len(s), tx, ty)]

(* -------------------------------- layout ------------------------------ *)
None == <<>>
IsNone(v) == v = <<>>

text_width(s) == Len(s) * char_w

total_h(n, sp) == n * font_h + (n - 1) * sp

\* (no vertical placement: the block starts at the top row)
start_y_top(pr, n, sp, ys) == IF ~IsNone(ys) THEN ys[1] ELSE 0
\* y0 of show_lines_align.  pihud-ip.py: max(0, (H - total_h)//2) when
\* y_start is None; pihud-kismet.py: 2 when y_start is None.
start_y(pr, n, sp, ys) ==
    IF ~IsNone(ys) THEN ys[1]
    ELSE IF pr = "ip" THEN Max(0, (H - total_h(n, sp)) \div 2)
    ELSE 2

\* (right alignment computed from the glyph width instead of the pitch)
line_x_glyph(pr, a, s) ==
    IF pr = "ip"
    THEN IF a = "right" THEN W - Len(s) * glyph_w
         ELSE IF a = "left" THEN 2
         ELSE Max(0, (W - text_width(s)) \div 2)
    ELSE 2
\* x of a line.  pihud-ip.py: by alignment; pihud-kismet.py: always 2.
line_x(pr, a, s) ==
    IF pr = "ip"
    THEN IF a = "right" THEN W - text_width(s)
         ELSE IF a = "left" THEN 2
         ELSE Max(0, (W - text_width(s)) \div 2)
    ELSE 2

line_y(yy0, idx, sp) == yy0 + idx * (font_h + sp)

\* (the lower limit of the guard left out)
in_bounds_no_floor(yy) == yy <= H - font_h
\* the guard of d.text: 0 <= y <= H - font_h
in_bounds(yy) == 0 <= yy /\ yy <= H - font_h

\* an align argument is a scalar ([list |-> FALSE, v |-> <<a>>]) or a
\* list/tuple ([list |-> TRUE, v |-> <<a1, ..., an>>])
Scalar(a) == [list |-> FALSE, v |-> <<a>>]
List(as) == [list |-> TRUE, v |-> as]

\* pihud-ip.py lines 94-99; pihud-kismet.py has no aligns
align_mismatch(pr, al, n) == pr = "ip" /\ al.list /\ Len(al.v) # n
normalise(pr, al, n) ==
    IF pr # "ip" THEN <<>>
    ELSE IF al.list THEN al.v
    ELSE [j \in 1..n |-> al.v[1]]

\* (the push reached from inside the loop, after the first line)
push_due_first(idx, n) == idx >= 1 \/ idx = n
\* the frame is pushed once the for loop has handled every line
push_due(idx, n) == idx = n

(* ------------------------------ page sweeps --------------------------- *)
\* (the clear sweeping only the logical pages)
page_count_logical(op) == PAGES
\* range(8) in _clear_all_pages, range(PAGES) in push_frame_only
page_count(op) == IF op = "clear" THEN PHYS_PAGES ELSE PAGES

\* (start computed from the page's first row instead of its first byte)
page_slice_rows(buf, pg) == Slice(buf, pg * 8, pg * 8 + W)
\* buf[start:start + W] with start = pg * W
page_slice(buf, pg) == Slice(buf, pg * W, pg * W + W)

page_payload(op, buf, pg) == IF op = "clear" THEN Zeros(W) ELSE page_slice(buf, pg)

\* (the redraw loop left outside the try block)
in_try_none(c) == FALSE
\* the try block of the main loop covers the whole redraw loop
in_try(c) == c = "loop"

(* ------------------------------ text producers ------------------------ *)
Digits == <<"0", "1", "2", "3", "4", "5", "6", "7", "8", "9">>
RECURSIVE Str(_)
Str(n) == IF n < 10 THEN Digits[n + 1] ELSE Str(n \div 10) \o Digits[(n % 10) + 1]
\* the format spec {v:02}
Fmt02(n) == IF n < 10 THEN "0" \o Str(n) ELSE Str(n)

uptime_line(elapsed) ==
    "Up " \o Fmt02(elapsed \div 3600) \o ":" \o Fmt02((elapsed % 3600) \div 60)
          \o ":" \o Fmt02(elapsed % 60)

kismet_lines(elapsed, counts, gps_status) ==
    << uptime_line(elapsed),
       "AP: " \o Str(counts.ap),
       "Wifi: " \o Str(counts.wifi),
       "BT: " \o Str(counts.bt),
       "GPS: " \o gps_status >>

\* values the producers return in the model
ElapsedVals == {5, 3725}
CountVals == {[ap |-> 0, wifi |-> 0, bt |-> 0], [ap |-> 12, wifi |-> 340, bt |-> 7]}
GpsVals == {"NO", "3D"}
HostVals == {"host1"}
IpVals == {<<>>, <<"10.0.0.5">>, <<"10.0.0.5", "fe80::1", "192.168.1.10">>}

\* BODY = (IPS[:BODY_ROWS] + [""] * BODY_ROWS)[:BODY_ROWS], BODY_ROWS = 2
BODY_ROWS == 2
body(ips) == SubSeq(SubSeq(ips, 1, Min(BODY_ROWS, Len(ips))) \o <<"", "">>, 1, BODY_ROWS)


(* ============================== actions =============================== *)

\* _init_for_48_rows: one command per step; after display ON init_panel
\* goes on to _clear_all_pages in the same SMBus session
InitCmd ==
    /\ pc = "init"
    /\ k < Len(init_for_48_rows)
    /\ bus' = Append(bus, init_for_48_rows[k + 1])
    /\ IF k + 1 < Len(init_for_48_rows)
       THEN /\ k' = k + 1
            /\ UNCHANGED <<pc, p, ch, i>>
       ELSE /\ pc' = "clear"
            /\ p' = 0 /\ k' = 0 /\ ch' = <<>> /\ i' = 0
    /\ UNCHANGED <<prog, ROTATE, caller, buffer, layoutVars, flip, LINES, exc, handled>>

\* _set_page_col inside _clear_all_pages / push_frame_only: one command
\* per step; after the third the page's payload is handed to _data
CursorCmd ==
    /\ pc \in {"clear", "push"}
    /\ k < 3
    /\ bus' = Append(bus, set_page_col(p, X_OFFSET)[k + 1])
    /\ k' = k + 1
    /\ IF k = 2
       THEN ch' = page_payload(pc, buffer, p) /\ i' = 0
       ELSE UNCHANGED <<ch, i>>
    /\ UNCHANGED <<prog, ROTATE, pc, caller, buffer, layoutVars, p, flip, LINES,
                   exc, handled>>

\* _data: one iteration of "while i < len(ch)"
DataChunk ==
    /\ pc \in {"clear", "push", "data"}
    /\ k = 3
    /\ i < Len(ch)
    /\ bus' = Append(bus, data_tx(ch, i))
    /\ i' = i + data_n(ch, i)
    /\ UNCHANGED <<prog, ROTATE, pc, caller, buffer, layoutVars, p, k, ch, flip,
                   LINES, exc, handled>>

\* _data returns (i >= len(ch)); the page loop goes to the next page, or the
\* sweep returns to its caller: init_panel returns into the main program,
\* show_lines_align returns into the redraw loop (time.sleep), the except
\* clause ends the process, a call made on its own has returned
DataReturn ==
    /\ pc \in {"clear", "push", "data"}
    /\ k = 3
    /\ i >= Len(ch)
    /\ IF pc = "data"
       THEN pc' = "returned" /\ UNCHANGED <<p, k, caller>>
       ELSE IF p + 1 < page_count(pc)
       THEN p' = p + 1 /\ k' = 0 /\ UNCHANGED <<pc, caller>>
       ELSE /\ UNCHANGED <<p, k>>
            /\ CASE caller = "init_panel" ->
                      /\ pc' = IF prog = "ip" THEN "gather" ELSE "loop"
                      /\ caller' = IF prog = "ip" THEN "main" ELSE "loop"
                 [] caller = "loop" -> pc' = "sleep" /\ UNCHANGED caller
                 [] caller = "except" -> pc' = "terminated" /\ UNCHANGED caller
                 [] OTHER -> pc' = "returned" /\ UNCHANGED caller
    /\ UNCHANGED <<prog, ROTATE, buffer, bus, layoutVars, ch, i, flip, LINES, exc,
                   handled>>

\* show_lines_align from its entry to the for loop: normalise align, d.fill(0),
\* n, total_h, y0
ShowLinesEntry(ls, al, sp, ys) ==
    /\ ~align_mismatch(prog, al, Len(ls))
    /\ lines' = ls
    /\ aligns' = normalise(prog, al, Len(ls))
    /\ line_spacing' = sp
    /\ y_start' = ys
    /\ buffer' = fill0
    /\ y0' = start_y(prog, Len(ls), sp, ys)
    /\ li' = 0 /\ x' = 0 /\ y' = 0
    /\ pc' = "draw"

\* one iteration of "for i, s in enumerate(lines)"
DrawLine ==
    /\ pc = "draw"
    /\ li < Len(lines)
    /\ ~push_due(li, Len(lines))
    /\ LET s == lines[li + 1]
           a == IF prog = "ip" THEN aligns[li + 1] ELSE "left"
           xx == line_x(prog, a, s)
           yy == line_y(y0, li, line_spacing)
       IN /\ x' = xx
          /\ y' = yy
          /\ buffer' = IF in_bounds(yy) THEN text(buffer, s, xx, yy) ELSE buffer
    /\ li' = li + 1
    /\ UNCHANGED <<prog, ROTATE, pc, caller, bus, lines, aligns, line_spacing,
                   y_start, y0, driverVars, flip, LINES, exc, handled>>

\* push_frame_only(d.buffer) is entered: a new SMBus session, page 0
EnterPush ==
    /\ pc = "draw"
    /\ push_due(li, Len(lines))
    /\ pc' = "push"
    /\ bus' = <<>>
    /\ p' = 0 /\ k' = 0 /\ ch' = <<>> /\ i' = 0
    /\ UNCHANGED <<prog, ROTATE, caller, buffer, layoutVars, flip, LINES, exc,
                   handled>>

(* ------------------------------ main programs ------------------------- *)
\* pihud-ip.py lines 131-141: HOST, IPS, BODY, LINES, flip
IpGather ==
    /\ pc = "gather"
    /\ \E host \in HostVals, ips \in IpVals : LINES' = <<host>> \o body(ips)
    /\ flip' = FALSE
    /\ pc' = "loop"
    /\ caller' = "loop"
    /\ UNCHANGED <<prog, ROTATE, buffer, bus, layoutVars, driverVars, exc, handled>>

\* pihud-ip.py lines 145-149
IpCycle ==
    /\ pc = "loop"
    /\ prog = "ip"
    /\ LET body_align == IF flip THEN "right" ELSE "left"
           ALIGNS == <<"center">> \o [j \in 1..(Len(LINES) - 1) |-> body_align]
       IN ShowLinesEntry(LINES, List(ALIGNS), 0, None)
    /\ UNCHANGED <<prog, ROTATE, caller, bus, driverVars, flip, LINES, exc, handled>>

\* pihud-kismet.py lines 104-122, get_counts() returning
KismetCycle ==
    /\ pc = "loop"
    /\ prog = "kismet"
    /\ \E elapsed \in ElapsedVals, counts \in CountVals, gps_status \in GpsVals :
          ShowLinesEntry(kismet_lines(elapsed, counts, gps_status), Scalar("left"),
                         0, <<8>>)
    /\ UNCHANGED <<prog, ROTATE, caller, bus, driverVars, flip, LINES, exc, handled>>

\* pihud-kismet.py line 111, get_counts() raising (urlopen or decoding fails):
\* the only except clause of the loop names KeyboardInterrupt
KismetCountsFail ==
    /\ pc = "loop"
    /\ prog = "kismet"
    /\ pc' = "terminated"
    /\ exc' = "URLError"
    /\ UNCHANGED <<prog, ROTATE, caller, buffer, bus, layoutVars, driverVars, flip,
                   LINES, handled>>

\* time.sleep(5); flip = not flip
Sleep ==
    /\ pc = "sleep"
    /\ pc' = "loop"
    /\ flip' = IF prog = "ip" THEN ~flip ELSE flip
    /\ UNCHANGED <<prog, ROTATE, caller, buffer, bus, layoutVars, driverVars, LINES,
                   exc, handled>>

\* a bus transaction is about to be issued
at_transaction ==
    \/ pc = "init"
    \/ pc \in {"clear", "push"} /\ (k < 3 \/ i < Len(ch))

\* write_i2c_block_data raises OSError: no except clause names it
BusFail ==
    /\ at_transaction
    /\ caller # "test"
    /\ pc' = "terminated"
    /\ exc' = "OSError"
    /\ UNCHANGED <<prog, ROTATE, caller, buffer, bus, layoutVars, driverVars, flip,
                   LINES, handled>>

\* SIGINT: KeyboardInterrupt is raised at the current position.  Inside the
\* try block the except clause opens an SMBus session and calls
\* _clear_all_pages; anywhere else it is uncaught
Interrupt ==
    /\ pc # "terminated"
    /\ caller # "test"
    /\ IF in_try(caller)
       THEN /\ handled' = TRUE
            /\ caller' = "except"
            /\ pc' = "clear"
            /\ bus' = <<>>
            /\ p' = 0 /\ k' = 0 /\ ch' = <<>> /\ i' = 0
            /\ UNCHANGED exc
       ELSE /\ pc' = "terminated"
            /\ exc' = "KeyboardInterrupt"
            /\ UNCHANGED <<handled, caller, bus, driverVars>>
    /\ UNCHANGED <<prog, ROTATE, buffer, layoutVars, flip, LINES>>

(* --------------------------- specifications --------------------------- *)
InitCommon ==
    /\ buffer = fill0
    /\ bus = <<>>
    /\ lines = <<>> /\ aligns = <<>> /\ line_spacing = 0 /\ y_start = None
    /\ y0 = 0 /\ li = 0 /\ x = 0 /\ y = 0
    /\ p = 0 /\ k = 0 /\ ch = <<>> /\ i = 0
    /\ flip = FALSE /\ LINES = <<>>
    /\ exc = "none" /\ handled = FALSE

\* the program at the call of init_panel()
Init ==
    /\ \/ prog = "ip" /\ ROTATE \in {0, 1}
       \/ prog = "kismet" /\ ROTATE = 0
    /\ pc = "init"
    /\ caller = "init_panel"
    /\ InitCommon

Next ==
    \/ InitCmd
    \/ CursorCmd
    \/ DataChunk
    \/ DataReturn
    \/ DrawLine
    \/ EnterPush
    \/ IpGather
    \/ IpCycle
    \/ KismetCycle
    \/ KismetCountsFail
    \/ Sleep
    \/ BusFail
    \/ Interrupt

Spec == Init /\ [][Next]_vars

(* ---- show_lines_align called with arguments drawn from bounded sets --- *)
TestLines ==
    { <<>>,
      <<"host1", "10.0.0.5", "fe80::1">>,
      <<"Uptime 00:00:05", "", "pi">>,
      <<"Up 00:00:05", "AP: 12", "Wifi: 340", "BT: 7", "GPS: 3D">> }
TestAligns ==
    { Scalar("left"), Scalar("center"), Scalar("right"),
      List(<<"center", "left", "right">>) }
TestSpacing == {0, 4, 12}
TestYStart == {None, <<-4>>, <<8>>}

InitLayout ==
    /\ prog \in {"ip", "kismet"}
    /\ ROTATE = 0
    /\ pc = "idle"
    /\ caller = "test"
    /\ InitCommon

\* a call show_lines_align(ls, al, sp, ys)
CallShowLines ==
    /\ pc = "idle"
    /\ \E ls \in TestLines, al \in TestAligns, sp \in TestSpacing, ys \in TestYStart :
          /\ prog = "kismet" => al = Scalar("left")
          /\ ShowLinesEntry(ls, al, sp, ys)
    /\ UNCHANGED <<prog, ROTATE, caller, bus, driverVars, flip, LINES, exc, handled>>

\* a call whose align list does not match the lines: ValueError, raised
\* before the framebuffer is touched
CallShowLinesMismatch ==
    /\ pc = "idle"
    /\ \E ls \in TestLines, al \in TestAligns : align_mismatch(prog, al, Len(ls))
    /\ pc' = "raised"
    /\ exc' = "ValueError"
    /\ UNCHANGED <<prog, ROTATE, caller, buffer, bus, layoutVars, driverVars, flip,
                   LINES, handled>>

NextLayout ==
    \/ CallShowLines
    \/ CallShowLinesMismatch
    \/ DrawLine
    \/ EnterPush
    \/ CursorCmd
    \/ DataChunk
    \/ DataReturn

SpecLayout == InitLayout /\ [][NextLayout]_vars

(* ---------- _data called with payloads drawn from a bounded set -------- *)
Seeds == {0, 1}
\* a payload of n bytes, all different
Payload(n, seed) == [j \in 1..n |-> (seed + 37 * j) % 256]

InitData ==
    /\ prog = "ip"
    /\ ROTATE = 0
    /\ pc = "idle"
    /\ caller = "test"
    /\ InitCommon

\* a call _data(b, payload)
CallData ==
    /\ pc = "idle"
    /\ \E n \in 0..MaxPayload, seed \in Seeds : ch' = Payload(n, seed)
    /\ pc' = "data"
    /\ k' = 3
    /\ i' = 0
    /\ bus' = <<>>
    /\ UNCHANGED <<prog, ROTATE, caller, buffer, layoutVars, p, flip, LINES, exc,
                   handled>>

NextData ==
    \/ CallData
    \/ DataChunk
    \/ DataReturn

SpecData == InitData /\ [][NextData]_vars


(* =============================== claims =============================== *)

\* the bytes of the data transactions and commands of a log, in order
RECURSIVE Flatten(_)
Flatten(log) ==
    IF log = <<>> THEN <<>>
    ELSE Flatten(SubSeq(log, 1, Len(log) - 1)) \o log[Len(log)].data

IsPrefix(a, b) == Len(a) <= Len(b) /\ a = SubSeq(b, 1, Len(a))

(* ---- C4 ---- *)
\* C4: _data on any payload issues only data-tagged (0x40) transactions, each
\* carrying at least 1 and at most 16 bytes; the chunks sent so far, in order,
\* are a prefix of the payload (so every iteration makes progress and the
\* loop ends), and once _data has returned their concatenation is the payload
\* exactly; an empty payload leaves the log empty.
C4_DataChunks ==
    pc \in {"data", "returned"} =>
       /\ \A t \in 1..Len(bus) :
             /\ bus[t].reg = 64
             /\ Len(bus[t].data) >= 1
             /\ Len(bus[t].data) <= 16
       /\ IsPrefix(Flatten(bus), ch)
       /\ pc = "returned" => Flatten(bus) = ch
       /\ ch = <<>> => bus = <<>>

\* a payload of 35 bytes has gone out as 16 + 16 + 3
C4_Witness ==
    /\ pc = "returned"
    /\ Len(ch) = 35
    /\ Len(bus) = 3
    /\ Len(bus[3].data) = 3

(* ---- C2 ---- *)
\* the sequence the controller must receive, by opcode: display-off,
\* multiplex H-1, display-offset 0, start-line 0, segment-remap and COM-scan
\* of the orientation profile, display-on
InitExpected ==
    << <<174>>, <<168, H - 1>>, <<211, 0>>, <<64>>,
       <<IF prog = "ip" /\ ROTATE = 1 THEN 161 ELSE 160>>,
       <<IF prog = "ip" /\ ROTATE = 1 THEN 200 ELSE 192>>,
       <<175>> >>

\* C2: in the session of init_panel the first seven transactions are commands
\* and are exactly display-off, multiplex H-1, display-offset 0, start-line 0,
\* segment-remap, COM-scan, display-on, in this order (a session cut short
\* holds a prefix of it); display-on is the seventh and appears nowhere else,
\* and initialisation is left only after all seven were sent.
C2_InitOrder ==
    caller = "init_panel" =>
       /\ \A t \in 1..Len(bus) :
             t <= 7 => bus[t] = [reg |-> 0, data |-> InitExpected[t]]
       /\ \A t \in 1..Len(bus) :
             (bus[t].reg = 0 /\ bus[t].data[1] = 175) => t = 7
       /\ pc = "init" => Len(bus) < 7
       /\ pc = "clear" => Len(bus) >= 7

\* the rotated profile: all seven commands sent, the clear not yet begun
C2_Witness ==
    /\ caller = "init_panel"
    /\ pc = "clear"
    /\ ROTATE = 1
    /\ Len(bus) = 7

(* ---- C3 ---- *)
\* the opcodes of _init_for_48_rows
InitOpcodes == {174, 168, 211, 64, 160, 161, 192, 200, 175}

\* the log positions of the select-page command of page pg
SelectAt(log, pg) == {t \in 1..Len(log) : log[t] = [reg |-> 0, data |-> <<176 + pg>>]}

\* the pages a log selects
Selected(log) == {pg \in 0..15 : SelectAt(log, pg) # {}}

FirstAt(log, pg) == CHOOSE t \in SelectAt(log, pg) : TRUE

\* where the transactions of page pg end in a log
PageEnd(log, pg) ==
    IF pg + 1 \in Selected(log) THEN FirstAt(log, pg + 1) - 1 ELSE Len(log)

\* the session of push_frame_only is being observed: it is running, it has
\* returned into the sleep of the loop, or a bus failure has cut it short
PushObserved ==
    \/ pc \in {"push", "sleep"}
    \/ pc = "terminated" /\ caller = "loop" /\ exc = "OSError"

\* C3: push_frame_only selects the logical pages 0, 1, ... in increasing
\* order, each once; after a page's select command come the low and the high
\* nibble of the column offset and then only data, whose concatenation is the
\* W-byte slice buffer[page*W : page*W + W] (a prefix of it while the page is
\* being written); a completed push covers pages 0..PAGES-1; no transaction of
\* the session is an initialisation command.
C3_PushFrame ==
    PushObserved =>
       /\ \A t \in 1..Len(bus) :
             bus[t].reg = 0 => Len(bus[t].data) = 1 /\ bus[t].data[1] \notin InitOpcodes
       /\ bus # <<>> => bus[1] = [reg |-> 0, data |-> <<176>>]
       /\ \E m \in 0..PAGES : Selected(bus) = 0..(m - 1)
       /\ pc = "sleep" => Selected(bus) = 0..(PAGES - 1)
       /\ \A pg \in Selected(bus) :
             LET t0 == FirstAt(bus, pg)
                 t1 == PageEnd(bus, pg)
                 slice == SubSeq(buffer, pg * W + 1, pg * W + W)
                 sent == Flatten(SubSeq(bus, t0 + 3, t1))
             IN /\ Cardinality(SelectAt(bus, pg)) = 1
                /\ t0 <= t1
                /\ t0 + 1 <= t1 => bus[t0 + 1] = [reg |-> 0, data |-> <<X_OFFSET % 16>>]
                /\ t0 + 2 <= t1 =>
                      bus[t0 + 2] = [reg |-> 0, data |-> <<16 + (X_OFFSET \div 16)>>]
                /\ \A t \in (t0 + 3)..t1 : bus[t].reg = 64
                /\ IsPrefix(sent, slice)
                /\ (pg + 1 \in Selected(bus) \/ pc = "sleep") => sent = slice

\* a composed, non-blank frame fully pushed on the rotated panel
C3_Witness ==
    /\ pc = "sleep"
    /\ ROTATE = 1
    /\ buffer # fill0
    /\ Len(bus) = PAGES * 9


(* ---- C1 ---- *)
\* the payload bytes of the data transactions of a log, in order
DataBytes(log) == Flatten(SelectSeq(log, LAMBDA e : e.reg = 64))

\* C1: in a call of show_lines_align no transaction is issued while the frame
\* is composed (from d.fill(0) to the last iteration of the for loop); every
\* transaction is issued after all lines were handled; the frame is pushed at
\* most once, and when the call has returned it was pushed exactly once and
\* the bytes the panel received are the bytes of the composed framebuffer.
C1_ComposeThenPush ==
    /\ pc = "draw" => bus = <<>>
    /\ bus # <<>> => pc \in {"push", "returned"} /\ li = Len(lines)
    /\ Cardinality(SelectAt(bus, 0)) <= 1
    /\ pc = "push" => IsPrefix(DataBytes(bus), buffer)
    /\ pc = "returned" =>
          /\ Cardinality(SelectAt(bus, 0)) = 1
          /\ DataBytes(bus) = buffer

\* a five-line frame composed and pushed
C1_Witness ==
    /\ pc = "returned"
    /\ Len(lines) = 5
    /\ li = 5
    /\ buffer # fill0
    /\ Len(bus) = PAGES * 9

(* ---- C5 ---- *)
\* row and column of line j (1-based) of the running call
RowOf(j) == y0 + (j - 1) * (font_h + line_spacing)
ColOf(j) == line_x(prog, IF prog = "ip" THEN aligns[j] ELSE "left", lines[j])
Survives(j) == 0 <= RowOf(j) /\ RowOf(j) <= H - 8

\* pixel (px, py) lies in a glyph cell of line j placed at its own position
InLine(j, px, py) ==
    /\ RowOf(j) <= py /\ py <= RowOf(j) + 7
    /\ ColOf(j) <= px /\ px < ColOf(j) + 6 * Len(lines[j])
    /\ (px - ColOf(j)) % 6 < 5

\* C5: after any number of lines were handled, a pixel of the framebuffer is
\* set exactly when it lies in a glyph cell of a handled line whose y is within
\* [0, H - 8], at that line's own position: a line with y < 0 or y > H - 8
\* changes no pixel (not even the rows of it that would fall inside the panel,
\* and none elsewhere), and the other lines are drawn where they belong.
C5_OverflowSkipped ==
    pc = "draw" =>
       \A px \in 0..(W - 1), py \in 0..(H - 1) :
          Pixel(buffer, px, py) <=> \E j \in 1..li : Survives(j) /\ InLine(j, px, py)

\* five lines at spacing 4 from row 8: the fourth (y = 44) and the fifth
\* (y = 56) are skipped, the first three are drawn
C5_Witness ==
    /\ pc = "draw"
    /\ Len(lines) = 5
    /\ li = 5
    /\ line_spacing = 4
    /\ y0 = 8
    /\ y = 56
    /\ buffer # fill0
    /\ \A px \in 0..(W - 1), py \in 44..(H - 1) : ~Pixel(buffer, px, py)

(* ---- C6 ---- *)
\* the columns lit in row r of the framebuffer
LitCols(r) == {c \in 0..(W - 1) : Pixel(buffer, c, r)}
SetMin(S) == CHOOSE m \in S : \A e \in S : m <= e
SetMax(S) == CHOOSE m \in S : \A e \in S : e <= m
Abs(v) == IF v < 0 THEN -v ELSE v

\* line j was drawn, is not empty and is at most W wide
Fits(j) == Survives(j) /\ Len(lines[j]) > 0 /\ Len(lines[j]) * 6 <= W

\* C6 as stated: right-aligned glyphs end at column W - 1, left-aligned
\* glyphs start at column 2, centered glyphs have margins differing by <= 1
C6_AlignmentAsStated ==
    (prog = "ip" /\ pc = "draw") =>
       \A j \in 1..li : Fits(j) =>
          LET cols == LitCols(RowOf(j))
          IN /\ cols # {}
             /\ aligns[j] = "right" => SetMax(cols) = W - 1
             /\ aligns[j] = "left" => SetMin(cols) = 2
             /\ aligns[j] = "center" =>
                   Abs(SetMin(cols) - (W - 1 - SetMax(cols))) <= 1

\* C6 amended: for every drawn, non-empty line at most W wide, with "right"
\* the last glyph ends at column W - 2 and column W - 1 is the blank spacing
\* column that closes the line's length*6 extent; with "left" the first glyph
\* starts at column 2; with "center" the margins differ by at most 1.
C6_Alignment ==
    (prog = "ip" /\ pc = "draw") =>
       \A j \in 1..li : Fits(j) =>
          LET cols == LitCols(RowOf(j))
          IN /\ cols # {}
             /\ aligns[j] = "right" =>
                   /\ SetMax(cols) = W - 2
                   /\ SetMin(cols) + Len(lines[j]) * 6 - 1 = W - 1
             /\ aligns[j] = "left" => SetMin(cols) = 2
             /\ aligns[j] = "center" =>
                   Abs(SetMin(cols) - (W - 1 - SetMax(cols))) <= 1

\* three lines drawn centered, left and right
C6_Witness ==
    /\ prog = "ip"
    /\ pc = "draw"
    /\ li = 3
    /\ aligns = <<"center", "left", "right">>
    /\ lines = <<"host1", "10.0.0.5", "fe80::1">>
    /\ \A j \in 1..3 : Fits(j)

(* ---- C7 ---- *)
\* the height of a block of n lines
BlockHeight(n) == n * 8 + (n - 1) * line_spacing
Centered == Max(0, (H - BlockHeight(Len(lines))) \div 2)

\* the last handled line is at row y0 + i*(8 + spacing), and if drawn its
\* glyph cells occupy rows y .. y + 7
Stacked ==
    li >= 1 =>
       /\ y = y0 + (li - 1) * (8 + line_spacing)
       /\ (Survives(li) /\ Len(lines[li]) > 0) =>
             \E c \in 0..(W - 1) : \A r \in y..(y + 7) : Pixel(buffer, c, r)

\* C7 as stated: in both programs y0 is the explicit start row if given and
\* otherwise centers the block, and line i is at y0 + i*(8 + spacing)
C7_VerticalAsStated ==
    pc = "draw" =>
       /\ y0 = IF IsNone(y_start) THEN Centered ELSE y_start[1]
       /\ Stacked

\* C7 amended: line i is at y0 + i*(fontHeight + lineSpacing) in both
\* programs, with y0 the explicit start row if one is given; with none given,
\* pihud-ip.py centers the block (y0 = max(0, (H - totalBlockHeight) / 2)) and
\* pihud-kismet.py starts at the fixed row y0 = 2.
C7_Vertical ==
    pc = "draw" =>
       /\ y0 = IF ~IsNone(y_start) THEN y_start[1]
               ELSE IF prog = "ip" THEN Centered ELSE 2
       /\ Stacked

\* pihud-kismet.py without a start row: five lines from row 2
C7_Witness ==
    /\ prog = "kismet"
    /\ pc = "draw"
    /\ IsNone(y_start)
    /\ Len(lines) = 5
    /\ li = 2
    /\ line_spacing = 0
    /\ y = 10

(* ---- C8 ---- *)
\* C8: a bus failure during push_frame_only inside the redraw loop does not
\* end the process (the loop goes on to a fresh full frame).
C8_PushFailureNonFatal ==
    ~(pc = "terminated" /\ caller = "loop" /\ exc = "OSError")

(* ---- C9 ---- *)
\* C9: a failure of get_counts in a redraw cycle does not end the process.
C9_CountsFailureNonFatal ==
    ~(pc = "terminated" /\ exc = "URLError")

(* ---- C10 ---- *)
\* C10: an interrupt ends the process directly only outside the redraw loop
\* (in init_panel, before the loop, or as a second interrupt inside the except
\* clause); an interrupt inside the redraw loop always enters the except
\* clause, which runs _clear_all_pages, and when that clear runs to its end
\* the panel has received zeros for all 8 pages before the process ends.
C10_InterruptClears ==
    /\ (pc = "terminated" /\ exc = "KeyboardInterrupt") =>
          caller \in {"init_panel", "main", "except"}
    /\ handled => caller = "except" /\ pc \in {"clear", "terminated"}
    /\ caller = "except" => handled
    /\ (pc = "terminated" /\ handled /\ exc = "none") =>
          /\ Selected(bus) = 0..7
          /\ DataBytes(bus) = Zeros(8 * W)

\* interrupted with a frame on the panel, then cleared and ended
C10_Witness ==
    /\ pc = "terminated"
    /\ handled
    /\ exc = "none"
    /\ buffer # fill0
    /\ Len(bus) = 8 * 9


(* ---- C11 ---- *)
\* a session that runs _clear_all_pages is being observed: init_panel (its
\* clear follows the seven init commands), init_panel just returned, or the
\* except clause
ClearObserved == caller \in {"init_panel", "except"} \/ pc = "gather"

\* the number of transactions that precede _clear_all_pages in the observed
\* session: the seven commands of _init_for_48_rows, none in the except clause
ClearFrom == IF caller = "except" THEN 0 ELSE 7

\* _clear_all_pages has run to its end
ClearComplete ==
    \/ pc = "gather"
    \/ caller = "except" /\ pc = "terminated" /\ exc = "none"

\* C11: _clear_all_pages selects the physical pages 0, 1, ... in increasing
\* order, each exactly once, page 0 by its first transaction; after a page's
\* select command come the low and the high nibble of the profile's column
\* offset and then only data, all of it zero bytes, W of them once the page is
\* finished; a clear that has run to its end has covered the pages 0..7,
\* although PAGES = H/8 = 6.
C11_ClearAllPages ==
    ClearObserved =>
       LET sel == Selected(bus)
       IN /\ Len(bus) > ClearFrom => bus[ClearFrom + 1] = [reg |-> 0, data |-> <<176>>]
          /\ \E m \in 0..8 : sel = 0..(m - 1)
          /\ ClearComplete => sel = 0..7 /\ PAGES = 6
          /\ \A pg \in sel :
                LET t0 == FirstAt(bus, pg)
                    t1 == IF pg + 1 \in sel THEN FirstAt(bus, pg + 1) - 1 ELSE Len(bus)
                    n == Len(Flatten(SubSeq(bus, t0 + 3, t1)))
                IN /\ Cardinality(SelectAt(bus, pg)) = 1
                   /\ ClearFrom < t0 /\ t0 <= t1
                   /\ t0 + 1 <= t1 =>
                         bus[t0 + 1] = [reg |-> 0, data |-> <<X_OFFSET % 16>>]
                   /\ t0 + 2 <= t1 =>
                         bus[t0 + 2] = [reg |-> 0, data |-> <<16 + (X_OFFSET \div 16)>>]
                   /\ \A t \in (t0 + 3)..t1 :
                         /\ bus[t].reg = 64
                         /\ \A q \in 1..Len(bus[t].data) : bus[t].data[q] = 0
                   /\ n <= W
                   /\ (pg + 1 \in sel \/ ClearComplete) => n = W

\* init_panel of the rotated panel has returned: eight pages cleared at
\* column offset 39
C11_Witness ==
    /\ pc = "gather"
    /\ ROTATE = 1
    /\ Len(bus) = 7 + 8 * 9
    /\ bus[8 + 7 * 9] = [reg |-> 0, data |-> <<183>>]
    /\ bus[8 + 7 * 9 + 1] = [reg |-> 0, data |-> <<7>>]

=============================================================================
